---- MODULE Spec2Model ----
(***************************************************************************)
(* Path-reduction tree of libdict (src/src/pr_tree.c).                     *)
(*                                                                         *)
(* The tree is modelled as a heap of pr_node records addressed by small    *)
(* positive integers, NULL being 0.  Every entry point of pr_tree.c is one *)
(* action; the loops and the recursion of the C code are recursive         *)
(* operators that follow the code statement by statement.                  *)
(***************************************************************************)
EXTENDS Integers, Sequences, FiniteSets, TLC

(***************************************************************************)
(* Bounds of the model.                                                    *)
(***************************************************************************)
\* keys of the full specification (Spec) compare as 1..MaxKey
MaxKey == 3
\* keys of the specification of the tree's shape (SpecShape) compare as
\* 1..MaxShapeKey
MaxShapeKey == 6
\* keys of the insert-only specification (SpecGrow) compare as 1..MaxGrowKey
MaxGrowKey == 8
\* keys of the specification of the cursor's steps and of the walk (SpecIter)
\* compare as 1..MaxIterKey
MaxIterKey == 4
\* keys of the specification of the descending runs (SpecLate) compare as
\* 1..MaxLateKey; a run leaves out at most MaxLate keys, inserted after it
MaxLateKey == 15
MaxLate == 3
\* iterations any one call may spend in the loops of fixup and remove before
\* the model gives up on it (S.fuel = 0 marks a call that did not finish)
MaxFuel == 40

NULL == 0

\* A key is a pointer to a caller's object: ord is what key_cmp compares,
\* cp tells apart two objects that compare equal.  Each of a caller's key
\* objects comes with its own datum (Datum, a non-null pointer); the key a caller looks up or
\* removes with is an object of its own (cp = 0), never one the tree stores.
Copies == {1, 2}
Key(o, c) == [ord |-> o, cp |-> c]
Datum(c) == 10 + c
Vals == {Datum(c) : c \in Copies}
Ords == 1..MaxKey
ShapeOrds == 1..MaxShapeKey
GrowOrds == 1..MaxGrowKey

VARIABLES
    root,       \* pr_tree.root
    count,      \* pr_tree.count
    nodes,      \* the heap: address -> pr_node, for the allocated nodes
    del_func,   \* pr_tree.del_func is set
    last,       \* what the last call was and what it returned
    deleted,    \* the pairs the last call handed to del_func, in order
    net,        \* nodes created - removes that returned 0 - counts clear returned
    itor,       \* pr_itor.node of the caller's cursor on this tree
    visited     \* the pairs the last call handed to its visitor, in order

vars == <<root, count, nodes, del_func, last, deleted, net, itor, visited>>

(***************************************************************************)
(* dict_ptr_cmp / the caller's comparator, as tree->key_cmp.               *)
(***************************************************************************)
key_cmp(a, b) == IF a.ord < b.ord THEN -1 ELSE IF a.ord > b.ord THEN 1 ELSE 0

(***************************************************************************)
(* The running state of a call: the tree's root and heap, and what it has  *)
(* done so far.                                                            *)
(*   ok    no ASSERT of rot_left / rot_right has failed                    *)
(*   mono  every rebalancing step of fixup so far made the internal path   *)
(*         length strictly smaller                                         *)
(*   sink  every pass of remove's loop that rotated took the node to be    *)
(*         removed one level down and made its weight strictly smaller     *)
(*   rots  rotations performed                                             *)
(*   fuel  loop iterations left                                            *)
(***************************************************************************)
Start(r, h) == [root |-> r, nodes |-> h, ok |-> TRUE, mono |-> TRUE,
                sink |-> TRUE, rots |-> 0, fuel |-> MaxFuel]

WEIGHT(h, n) == IF n # NULL THEN h[n].weight ELSE 1

REWEIGH(h, n) ==
    [h EXCEPT ![n].weight = WEIGHT(h, h[n].llink) + WEIGHT(h, h[n].rlink)]

\* MALLOC may hand out any free address, and the code never looks at an
\* address except to compare it with another: the model takes the address
\* numbered like the key's rank when it is free (it is whenever the key is
\* not in the tree), and the lowest free one otherwise.
MALLOC(h, key) ==
    IF key.ord \notin DOMAIN h THEN key.ord
    ELSE CHOOSE i \in 1..(Cardinality(DOMAIN h) + 1) :
             /\ i \notin DOMAIN h
             /\ \A j \in 1..(i - 1) : j \in DOMAIN h

node_new(h, key, datum) ==
    LET a == MALLOC(h, key)
    IN [addr |-> a,
        nodes |-> [i \in DOMAIN h \cup {a} |->
                     IF i = a
                     THEN [key |-> key, datum |-> datum, parent |-> NULL,
                           llink |-> NULL, rlink |-> NULL, weight |-> 2]
                     ELSE h[i]]]

FREE(h, n) == [i \in DOMAIN h \ {n} |-> h[i]]

(***************************************************************************)
(* Metrics.                                                                *)
(***************************************************************************)
\* (mutant of node_pathlen: the level is not raised on the way down)
RECURSIVE node_pathlen_flat(_, _, _)
node_pathlen_flat(h, node, level) ==
    (IF h[node].llink # NULL
     THEN level + node_pathlen_flat(h, h[node].llink, level) ELSE 0)
  + (IF h[node].rlink # NULL
     THEN level + node_pathlen_flat(h, h[node].rlink, level) ELSE 0)

RECURSIVE node_pathlen(_, _, _)
node_pathlen(h, node, level) ==
    (IF h[node].llink # NULL
     THEN level + node_pathlen(h, h[node].llink, level + 1) ELSE 0)
  + (IF h[node].rlink # NULL
     THEN level + node_pathlen(h, h[node].rlink, level + 1) ELSE 0)

pr_tree_pathlen(r, h) == IF r # NULL THEN node_pathlen(h, r, 1) ELSE 0

MAX(a, b) == IF a > b THEN a ELSE b
MIN(a, b) == IF a < b THEN a ELSE b

RECURSIVE node_height(_, _)
node_height(h, node) ==
    MAX(IF h[node].llink # NULL THEN node_height(h, h[node].llink) + 1 ELSE 0,
        IF h[node].rlink # NULL THEN node_height(h, h[node].rlink) + 1 ELSE 0)

pr_tree_height(r, h) == IF r # NULL THEN node_height(h, r) ELSE 0

RECURSIVE node_mheight(_, _)
node_mheight(h, node) ==
    MIN(IF h[node].llink # NULL THEN node_mheight(h, h[node].llink) + 1 ELSE 0,
        IF h[node].rlink # NULL THEN node_mheight(h, h[node].rlink) + 1 ELSE 0)

pr_tree_mheight(r, h) == IF r # NULL THEN node_mheight(h, r) ELSE 0

(***************************************************************************)
(* Rotations.  The statements of the C code are applied one after the      *)
(* other to the running state.  A failed ASSERT leaves the state as it is  *)
(* and clears ok.                                                          *)
(***************************************************************************)
rot_left(S, node) ==
    IF node = NULL \/ S.nodes[node].rlink = NULL
    THEN [S EXCEPT !.ok = FALSE]
    ELSE
    LET rlink == S.nodes[node].rlink
        \* node->rlink = rlink->llink;
        cut(T) == [T EXCEPT !.nodes[node].rlink = T.nodes[rlink].llink]
        \* if (rlink->llink) rlink->llink->parent = node;
        adopt(T) == IF T.nodes[rlink].llink # NULL
                    THEN [T EXCEPT !.nodes[T.nodes[rlink].llink].parent = node]
                    ELSE T
        \* parent = node->parent; rlink->parent = parent; if (parent) ...
        lift(T) ==
            LET parent == T.nodes[node].parent
            IN IF parent # NULL
               THEN IF T.nodes[parent].llink = node
                    THEN [T EXCEPT !.nodes[rlink].parent = parent,
                                   !.nodes[parent].llink = rlink]
                    ELSE [T EXCEPT !.nodes[rlink].parent = parent,
                                   !.nodes[parent].rlink = rlink]
               ELSE [T EXCEPT !.nodes[rlink].parent = parent, !.root = rlink]
        \* rlink->llink = node; node->parent = rlink;
        hang(T) == [T EXCEPT !.nodes[rlink].llink = node,
                             !.nodes[node].parent = rlink]
        reweigh(T) == [T EXCEPT !.nodes = REWEIGH(REWEIGH(@, node), rlink),
                                !.rots = @ + 1]
    IN reweigh(hang(lift(adopt(cut(S)))))

\* (mutant of rot_right: the subtree that changes sides keeps its parent)
rot_right_stale(S, node) ==
    IF node = NULL \/ S.nodes[node].llink = NULL
    THEN [S EXCEPT !.ok = FALSE]
    ELSE
    LET llink == S.nodes[node].llink
        cut(T) == [T EXCEPT !.nodes[node].llink = T.nodes[llink].rlink]
        lift(T) ==
            LET parent == T.nodes[node].parent
            IN IF parent # NULL
               THEN IF T.nodes[parent].llink = node
                    THEN [T EXCEPT !.nodes[llink].parent = parent,
                                   !.nodes[parent].llink = llink]
                    ELSE [T EXCEPT !.nodes[llink].parent = parent,
                                   !.nodes[parent].rlink = llink]
               ELSE [T EXCEPT !.nodes[llink].parent = parent, !.root = llink]
        hang(T) == [T EXCEPT !.nodes[llink].rlink = node,
                             !.nodes[node].parent = llink]
        reweigh(T) == [T EXCEPT !.nodes = REWEIGH(REWEIGH(@, node), llink),
                                !.rots = @ + 1]
    IN reweigh(hang(lift(cut(S))))

rot_right(S, node) ==
    IF node = NULL \/ S.nodes[node].llink = NULL
    THEN [S EXCEPT !.ok = FALSE]
    ELSE
    LET llink == S.nodes[node].llink
        \* node->llink = llink->rlink;
        cut(T) == [T EXCEPT !.nodes[node].llink = T.nodes[llink].rlink]
        \* if (llink->rlink) llink->rlink->parent = node;
        adopt(T) == IF T.nodes[llink].rlink # NULL
                    THEN [T EXCEPT !.nodes[T.nodes[llink].rlink].parent = node]
                    ELSE T
        \* parent = node->parent; llink->parent = parent; if (parent) ...
        lift(T) ==
            LET parent == T.nodes[node].parent
            IN IF parent # NULL
               THEN IF T.nodes[parent].llink = node
                    THEN [T EXCEPT !.nodes[llink].parent = parent,
                                   !.nodes[parent].llink = llink]
                    ELSE [T EXCEPT !.nodes[llink].parent = parent,
                                   !.nodes[parent].rlink = llink]
               ELSE [T EXCEPT !.nodes[llink].parent = parent, !.root = llink]
        \* llink->rlink = node; node->parent = llink;
        hang(T) == [T EXCEPT !.nodes[llink].rlink = node,
                             !.nodes[node].parent = llink]
        reweigh(T) == [T EXCEPT !.nodes = REWEIGH(REWEIGH(@, node), llink),
                                !.rots = @ + 1]
    IN reweigh(hang(lift(adopt(cut(S)))))

(***************************************************************************)
(* fixup.  Stepped(S, S1) is S1 with the record of whether the rebalancing *)
(* step that led from S to S1 shortened the internal path length.          *)
(***************************************************************************)
Stepped(S, S1) ==
    [S1 EXCEPT !.mono = @ /\ pr_tree_pathlen(S1.root, S1.nodes)
                               < pr_tree_pathlen(S.root, S.nodes)]

\* (mutant of fixup: it rotates already when the weights are equal)
RECURSIVE fixup_eager(_, _)
fixup_eager(S, node) ==
    IF S.fuel = 0 \/ ~S.ok THEN S ELSE
    LET h == S.nodes
        wl == WEIGHT(h, h[node].llink)
        wr == WEIGHT(h, h[node].rlink)
        T == [S EXCEPT !.fuel = @ - 1]
        inner_right(S2, temp) ==
            IF S2.ok /\ S2.nodes[temp].rlink # NULL
            THEN fixup_eager(S2, S2.nodes[temp].rlink) ELSE S2
        inner_left(S2, temp) ==
            IF S2.ok /\ S2.nodes[temp].llink # NULL
            THEN fixup_eager(S2, S2.nodes[temp].llink) ELSE S2
    IN IF wr > wl THEN
           IF WEIGHT(h, h[h[node].rlink].rlink) >= wl THEN
               fixup_eager(Stepped(T, rot_left(T, node)), node)
           ELSE IF WEIGHT(h, h[h[node].rlink].llink) >= wl THEN
               fixup_eager(
                   inner_right(
                       Stepped(T, rot_left(rot_right(T, h[node].rlink), node)),
                       h[node].rlink),
                   node)
           ELSE S
       ELSE IF wl > wr THEN
           IF WEIGHT(h, h[h[node].llink].llink) >= wr THEN
               fixup_eager(Stepped(T, rot_right(T, node)), node)
           ELSE IF WEIGHT(h, h[h[node].llink].rlink) >= wr THEN
               fixup_eager(
                   inner_left(
                       Stepped(T, rot_right(rot_left(T, h[node].llink), node)),
                       h[node].llink),
                   node)
           ELSE S
       ELSE S

\* Each pass of the label again spends one unit of fuel (T).  In the double
\* rotations temp is node's child before the rotations; inner_right and
\* inner_left are the recursive calls on temp's child after them.
RECURSIVE fixup(_, _)
fixup(S, node) ==
    IF S.fuel = 0 \/ ~S.ok THEN S ELSE
    LET h == S.nodes
        wl == WEIGHT(h, h[node].llink)
        wr == WEIGHT(h, h[node].rlink)
        T == [S EXCEPT !.fuel = @ - 1]
        inner_right(S2, temp) ==
            IF S2.ok /\ S2.nodes[temp].rlink # NULL
            THEN fixup(S2, S2.nodes[temp].rlink) ELSE S2
        inner_left(S2, temp) ==
            IF S2.ok /\ S2.nodes[temp].llink # NULL
            THEN fixup(S2, S2.nodes[temp].llink) ELSE S2
    IN IF wr > wl THEN
           IF WEIGHT(h, h[h[node].rlink].rlink) > wl THEN          \* LL
               fixup(Stepped(T, rot_left(T, node)), node)
           ELSE IF WEIGHT(h, h[h[node].rlink].llink) > wl THEN     \* RL
               fixup(
                   inner_right(
                       Stepped(T, rot_left(rot_right(T, h[node].rlink), node)),
                       h[node].rlink),
                   node)
           ELSE S
       ELSE IF wl > wr THEN
           IF WEIGHT(h, h[h[node].llink].llink) > wr THEN          \* RR
               fixup(Stepped(T, rot_right(T, node)), node)
           ELSE IF WEIGHT(h, h[h[node].llink].rlink) > wr THEN     \* LR
               fixup(
                   inner_left(
                       Stepped(T, rot_right(rot_left(T, h[node].llink), node)),
                       h[node].llink),
                   node)
           ELSE S
       ELSE S

\* the macro expansion of fixup that insert and probe use
FIXUP(S, node) == fixup(S, node)

(***************************************************************************)
(* What a call hands back: the state it leaves (S), the count, its return  *)
(* value (rv), what it wrote for the caller (out: the datum search         *)
(* returns, the slot after probe), whether it created a node, and the      *)
(* pairs it gave to del_func.                                              *)
(***************************************************************************)
Result(S, c, rv, out, made, gone) ==
    [S |-> S, count |-> c, rv |-> rv, out |-> out, made |-> made,
     deleted |-> gone]

Idle(r, h) == Start(r, h)

(***************************************************************************)
(* pr_tree_search.                                                         *)
(***************************************************************************)
\* (mutant of search_from: the comparison is read the wrong way round)
RECURSIVE search_from_mirrored(_, _, _)
search_from_mirrored(h, node, key) ==
    IF node = NULL THEN NULL
    ELSE IF key_cmp(key, h[node].key) > 0
         THEN search_from_mirrored(h, h[node].llink, key)
         ELSE IF key_cmp(key, h[node].key) < 0
         THEN search_from_mirrored(h, h[node].rlink, key)
         ELSE node

\* the loop of pr_tree_search: the node it ends at
RECURSIVE search_from(_, _, _)
search_from(h, node, key) ==
    IF node = NULL THEN NULL
    ELSE IF key_cmp(key, h[node].key) < 0
         THEN search_from(h, h[node].llink, key)
         ELSE IF key_cmp(key, h[node].key) > 0
         THEN search_from(h, h[node].rlink, key)
         ELSE node

datum_of(h, node) == IF node # NULL THEN h[node].datum ELSE NULL

pr_tree_search(r, h, key) == datum_of(h, search_from(h, r, key))

(***************************************************************************)
(* pr_tree_insert.  mem: whether MALLOC succeeds in node_new.              *)
(***************************************************************************)
\* the while loop (lines 281-298): where it stops (node), the last node it
\* passed (parent) and the last comparison (rv)
RECURSIVE insert_descend(_, _, _, _, _)
insert_descend(h, node, parent, rv, key) ==
    IF node = NULL THEN [node |-> NULL, parent |-> parent, rv |-> rv]
    ELSE IF key_cmp(key, h[node].key) < 0
         THEN insert_descend(h, h[node].llink, node, -1, key)
         ELSE IF key_cmp(key, h[node].key) > 0
         THEN insert_descend(h, h[node].rlink, node, 1, key)
         ELSE [node |-> node, parent |-> node, rv |-> 0]

\* (mutant of insert_climb: the weights are raised, nothing is rebalanced)
RECURSIVE insert_climb_no_fixup(_, _)
insert_climb_no_fixup(S, node) ==
    IF node = NULL THEN S
    ELSE insert_climb_no_fixup([S EXCEPT !.nodes[node].weight = @ + 1],
                               S.nodes[node].parent)

\* the walk from the new node's parent to the root (lines 313-317)
RECURSIVE insert_climb(_, _)
insert_climb(S, node) ==
    IF node = NULL THEN S
    ELSE insert_climb(FIXUP([S EXCEPT !.nodes[node].weight = @ + 1], node),
                      S.nodes[node].parent)

\* (mutant of insert_link: the new node goes to the wrong side)
insert_link_swapped(r, c, nn, d) ==
    IF d.parent = NULL
    THEN Result(Start(nn.addr, [nn.nodes EXCEPT ![nn.addr].parent = NULL]),
                1, 0, NULL, TRUE, <<>>)
    ELSE Result(insert_climb(
                    Start(r, IF d.rv > 0
                             THEN [nn.nodes EXCEPT ![nn.addr].parent = d.parent,
                                                   ![d.parent].llink = nn.addr]
                             ELSE [nn.nodes EXCEPT ![nn.addr].parent = d.parent,
                                                   ![d.parent].rlink = nn.addr]),
                    d.parent),
                c + 1, 0, NULL, TRUE, <<>>)

\* lines 302-320, nn being the node node_new made
insert_link(r, c, nn, d) ==
    IF d.parent = NULL
    THEN Result(Start(nn.addr, [nn.nodes EXCEPT ![nn.addr].parent = NULL]),
                1, 0, NULL, TRUE, <<>>)
    ELSE Result(insert_climb(
                    Start(r, IF d.rv < 0
                             THEN [nn.nodes EXCEPT ![nn.addr].parent = d.parent,
                                                   ![d.parent].llink = nn.addr]
                             ELSE [nn.nodes EXCEPT ![nn.addr].parent = d.parent,
                                                   ![d.parent].rlink = nn.addr]),
                    d.parent),
                c + 1, 0, NULL, TRUE, <<>>)

\* (mutant of insert_found: the datum is stored before the overwrite flag is
\* looked at)
insert_found_early_store(r, c, h, df, node, key, datum, overwrite) ==
    IF overwrite = 0
    THEN Result(Idle(r, [h EXCEPT ![node].datum = datum]), c, 1, NULL, FALSE,
                <<>>)
    ELSE Result(Idle(r, [h EXCEPT ![node].key = key, ![node].datum = datum]),
                c, 0, NULL, FALSE,
                IF df THEN <<<<h[node].key, h[node].datum>>>> ELSE <<>>)

\* (mutant of insert_found: an overwrite replaces the datum and keeps the
\* old key)
insert_found_keep_key(r, c, h, df, node, key, datum, overwrite) ==
    IF overwrite = 0
    THEN Result(Idle(r, h), c, 1, NULL, FALSE, <<>>)
    ELSE Result(Idle(r, [h EXCEPT ![node].datum = datum]),
                c, 0, NULL, FALSE,
                IF df THEN <<<<h[node].key, h[node].datum>>>> ELSE <<>>)

\* lines 289-297: the key compares equal to node's
insert_found(r, c, h, df, node, key, datum, overwrite) ==
    IF overwrite = 0
    THEN Result(Idle(r, h), c, 1, NULL, FALSE, <<>>)
    ELSE Result(Idle(r, [h EXCEPT ![node].key = key, ![node].datum = datum]),
                c, 0, NULL, FALSE,
                IF df THEN <<<<h[node].key, h[node].datum>>>> ELSE <<>>)

insert_at(r, c, h, df, d, key, datum, overwrite, mem) ==
    IF d.node # NULL
    THEN insert_found(r, c, h, df, d.node, key, datum, overwrite)
    ELSE IF ~mem
    THEN Result(Idle(r, h), c, -1, NULL, FALSE, <<>>)
    ELSE insert_link(r, c, node_new(h, key, datum), d)

pr_tree_insert(r, c, h, df, key, datum, overwrite, mem) ==
    insert_at(r, c, h, df, insert_descend(h, r, NULL, 0, key), key, datum,
              overwrite, mem)

(***************************************************************************)
(* pr_tree_probe.  slot: the datum the caller put in *datum.               *)
(***************************************************************************)
\* the while loop (lines 331-342)
RECURSIVE probe_descend(_, _, _, _, _)
probe_descend(h, node, parent, rv, key) ==
    IF node = NULL THEN [node |-> NULL, parent |-> parent, rv |-> rv]
    ELSE IF key_cmp(key, h[node].key) < 0
         THEN probe_descend(h, h[node].llink, node, -1, key)
         ELSE IF key_cmp(key, h[node].key) > 0
         THEN probe_descend(h, h[node].rlink, node, 1, key)
         ELSE [node |-> node, parent |-> parent, rv |-> 0]

\* (mutant of probe_climb: the weights are raised, nothing is rebalanced)
RECURSIVE probe_climb_no_fixup(_, _)
probe_climb_no_fixup(S, node) ==
    IF node = NULL THEN S
    ELSE probe_climb_no_fixup([S EXCEPT !.nodes[node].weight = @ + 1],
                              S.nodes[node].parent)

\* the walk from the new node's parent to the root (lines 358-362)
RECURSIVE probe_climb(_, _)
probe_climb(S, node) ==
    IF node = NULL THEN S
    ELSE probe_climb(FIXUP([S EXCEPT !.nodes[node].weight = @ + 1], node),
                     S.nodes[node].parent)

\* lines 346-365, nn being the node node_new made
probe_link(r, c, nn, d, slot) ==
    IF d.parent = NULL
    THEN Result(Start(nn.addr, [nn.nodes EXCEPT ![nn.addr].parent = NULL]),
                1, 1, slot, TRUE, <<>>)
    ELSE Result(probe_climb(
                    Start(r, IF d.rv < 0
                             THEN [nn.nodes EXCEPT ![nn.addr].parent = d.parent,
                                                   ![d.parent].llink = nn.addr]
                             ELSE [nn.nodes EXCEPT ![nn.addr].parent = d.parent,
                                                   ![d.parent].rlink = nn.addr]),
                    d.parent),
                c + 1, 1, slot, TRUE, <<>>)

probe_at(r, c, h, d, key, slot, mem) ==
    IF d.node # NULL
    THEN Result(Idle(r, h), c, 0, h[d.node].datum, FALSE, <<>>)
    ELSE IF ~mem
    THEN Result(Idle(r, h), c, -1, slot, FALSE, <<>>)
    ELSE probe_link(r, c, node_new(h, key, slot), d, slot)

pr_tree_probe(r, c, h, key, slot, mem) ==
    probe_at(r, c, h, probe_descend(h, r, NULL, 0, key), key, slot, mem)

(***************************************************************************)
(* pr_tree_remove.  The call's result: rv is 0 or -1, or 2 when the loop   *)
(* was abandoned for want of fuel (the call did not return).               *)
(***************************************************************************)
\* (mutant of unweigh: only the spliced node's parent loses weight)
unweigh_once(h, temp) ==
    IF temp = NULL THEN h ELSE [h EXCEPT ![temp].weight = @ - 1]

\* for (; temp; temp = temp->parent) temp->weight--;
RECURSIVE unweigh(_, _)
unweigh(h, temp) ==
    IF temp = NULL THEN h
    ELSE unweigh([h EXCEPT ![temp].weight = @ - 1], h[temp].parent)

\* (mutant of splice: the count is left as it was)
splice_keep_count(S, c, df, node, out) ==
    LET orphan(T) == IF out # NULL
                     THEN [T EXCEPT !.nodes[out].parent = T.nodes[node].parent]
                     ELSE T
        relink(T) ==
            LET parent == T.nodes[node].parent
            IN IF parent # NULL
               THEN IF T.nodes[parent].llink = node
                    THEN [T EXCEPT !.nodes[parent].llink = out]
                    ELSE [T EXCEPT !.nodes[parent].rlink = out]
               ELSE [T EXCEPT !.root = out]
        release(T) ==
            [T EXCEPT !.nodes = unweigh(FREE(@, node), T.nodes[node].parent)]
    IN Result(release(relink(orphan(S))), c, 0, NULL, FALSE,
              IF df THEN <<<<S.nodes[node].key, S.nodes[node].datum>>>>
                    ELSE <<>>)

\* lines 385-406 with out the right child, lines 408-428 with out the left
splice(S, c, df, node, out) ==
    LET \* if (out) out->parent = node->parent;
        orphan(T) == IF out # NULL
                     THEN [T EXCEPT !.nodes[out].parent = T.nodes[node].parent]
                     ELSE T
        \* if (node->parent) ... else tree->root = out;
        relink(T) ==
            LET parent == T.nodes[node].parent
            IN IF parent # NULL
               THEN IF T.nodes[parent].llink = node
                    THEN [T EXCEPT !.nodes[parent].llink = out]
                    ELSE [T EXCEPT !.nodes[parent].rlink = out]
               ELSE [T EXCEPT !.root = out]
        \* temp = node->parent; FREE(node); for (; temp; ...) temp->weight--;
        release(T) ==
            [T EXCEPT !.nodes = unweigh(FREE(@, node), T.nodes[node].parent)]
    IN Result(release(relink(orphan(S))), c - 1, 0, NULL, FALSE,
              IF df THEN <<<<S.nodes[node].key, S.nodes[node].datum>>>>
                    ELSE <<>>)

\* the number of parent links from node up to the root (at most fuel)
RECURSIVE level_of(_, _, _)
level_of(h, node, fuel) ==
    IF h[node].parent = NULL \/ fuel = 0 THEN 0
    ELSE 1 + level_of(h, h[node].parent, fuel - 1)

\* S1 with the record of whether the pass of the loop that led from S to S1
\* took node one level down and made its weight strictly smaller
Sunk(S, S1, node) ==
    [S1 EXCEPT !.sink =
        /\ @
        /\ S1.nodes[node].weight < S.nodes[node].weight
        /\ level_of(S1.nodes, node, MaxFuel)
              = level_of(S.nodes, node, MaxFuel) + 1]

\* (mutant of remove_loop: the comparisons that decide on the first rotation
\* of a double one are the wrong way round)
RECURSIVE remove_loop_flipped(_, _, _, _, _)
remove_loop_flipped(S, c, df, node, key) ==
    IF node = NULL
    THEN Result(S, c, -1, NULL, FALSE, <<>>)
    ELSE IF S.fuel = 0 \/ ~S.ok
    THEN Result(S, c, 2, NULL, FALSE, <<>>)
    ELSE
    LET h == S.nodes
        T == [S EXCEPT !.fuel = @ - 1]
        rv == key_cmp(key, h[node].key)
        down_right(S1, out) ==
            remove_loop_flipped(S1, c, df, S1.nodes[out].rlink, key)
        turn_right(S1) ==
            down_right(Sunk(T, rot_right(S1, node), node), S1.nodes[node].llink)
        down_left(S1, out) ==
            remove_loop_flipped(S1, c, df, S1.nodes[out].llink, key)
        turn_left(S1) ==
            down_left(Sunk(T, rot_left(S1, node), node), S1.nodes[node].rlink)
    IN IF rv # 0 THEN
           remove_loop_flipped(T, c, df,
                               IF rv < 0 THEN h[node].llink ELSE h[node].rlink,
                               key)
       ELSE IF h[node].llink = NULL THEN
           splice(T, c, df, node, h[node].rlink)
       ELSE IF h[node].rlink = NULL THEN
           splice(T, c, df, node, h[node].llink)
       ELSE IF WEIGHT(h, h[node].llink) > WEIGHT(h, h[node].rlink) THEN
           turn_right(IF WEIGHT(h, h[h[node].llink].llink)
                            > WEIGHT(h, h[h[node].llink].rlink)
                      THEN rot_left(T, h[node].llink) ELSE T)
       ELSE
           turn_left(IF WEIGHT(h, h[h[node].rlink].rlink)
                           > WEIGHT(h, h[h[node].rlink].llink)
                     THEN rot_right(T, h[node].rlink) ELSE T)

RECURSIVE remove_loop(_, _, _, _, _)
remove_loop(S, c, df, node, key) ==
    IF node = NULL
    THEN Result(S, c, -1, NULL, FALSE, <<>>)
    ELSE IF S.fuel = 0 \/ ~S.ok
    THEN Result(S, c, 2, NULL, FALSE, <<>>)
    ELSE
    LET h == S.nodes
        T == [S EXCEPT !.fuel = @ - 1]
        rv == key_cmp(key, h[node].key)
        \* out = node->llink; rot_right(tree, node); node = out->rlink;
        down_right(S1, out) == remove_loop(S1, c, df, S1.nodes[out].rlink, key)
        turn_right(S1) ==
            down_right(Sunk(T, rot_right(S1, node), node), S1.nodes[node].llink)
        \* out = node->rlink; rot_left(tree, node); node = out->llink;
        down_left(S1, out) == remove_loop(S1, c, df, S1.nodes[out].llink, key)
        turn_left(S1) ==
            down_left(Sunk(T, rot_left(S1, node), node), S1.nodes[node].rlink)
    IN IF rv # 0 THEN
           remove_loop(T, c, df,
                       IF rv < 0 THEN h[node].llink ELSE h[node].rlink, key)
       ELSE IF h[node].llink = NULL THEN
           splice(T, c, df, node, h[node].rlink)
       ELSE IF h[node].rlink = NULL THEN
           splice(T, c, df, node, h[node].llink)
       ELSE IF WEIGHT(h, h[node].llink) > WEIGHT(h, h[node].rlink) THEN
           turn_right(IF WEIGHT(h, h[h[node].llink].llink)
                            < WEIGHT(h, h[h[node].llink].rlink)
                      THEN rot_left(T, h[node].llink) ELSE T)
       ELSE
           turn_left(IF WEIGHT(h, h[h[node].rlink].rlink)
                           < WEIGHT(h, h[h[node].rlink].llink)
                     THEN rot_right(T, h[node].rlink) ELSE T)

pr_tree_remove(r, c, h, df, key) == remove_loop(Start(r, h), c, df, r, key)

(***************************************************************************)
(* pr_tree_empty (clear).                                                  *)
(***************************************************************************)
\* if (parent) { if (parent->llink == node) parent->llink = NULL; else ... }
unlink_leaf(h, parent, node) ==
    IF parent # NULL
    THEN IF h[parent].llink = node
         THEN [h EXCEPT ![parent].llink = NULL]
         ELSE [h EXCEPT ![parent].rlink = NULL]
    ELSE h

\* (mutant of empty_loop: a node without a left child is freed at once)
RECURSIVE empty_loop_left_only(_, _, _, _)
empty_loop_left_only(S, df, node, gone) ==
    IF node = NULL \/ S.fuel = 0 THEN [S |-> S, deleted |-> gone]
    ELSE IF S.nodes[node].llink # NULL
    THEN empty_loop_left_only([S EXCEPT !.fuel = @ - 1], df,
                              S.nodes[node].llink, gone)
    ELSE empty_loop_left_only(
             [S EXCEPT !.fuel = @ - 1,
                       !.nodes = unlink_leaf(FREE(@, node),
                                             S.nodes[node].parent, node)],
             df, S.nodes[node].parent,
             IF df THEN Append(gone, <<S.nodes[node].key, S.nodes[node].datum>>)
                   ELSE gone)

\* the while loop: gone collects the pairs given to del_func
RECURSIVE empty_loop(_, _, _, _)
empty_loop(S, df, node, gone) ==
    IF node = NULL \/ S.fuel = 0 THEN [S |-> S, deleted |-> gone]
    ELSE IF S.nodes[node].llink # NULL
    THEN empty_loop([S EXCEPT !.fuel = @ - 1], df, S.nodes[node].llink, gone)
    ELSE IF S.nodes[node].rlink # NULL
    THEN empty_loop([S EXCEPT !.fuel = @ - 1], df, S.nodes[node].rlink, gone)
    ELSE empty_loop(
             [S EXCEPT !.fuel = @ - 1,
                       !.nodes = unlink_leaf(FREE(@, node),
                                             S.nodes[node].parent, node)],
             df, S.nodes[node].parent,
             IF df THEN Append(gone, <<S.nodes[node].key, S.nodes[node].datum>>)
                   ELSE gone)

\* (mutant of emptied: count is not reset)
emptied_keepcount(c, res) ==
    Result([res.S EXCEPT !.root = NULL], c, c, NULL, FALSE, res.deleted)

\* tree->root = NULL; tree->count = 0; return count;
emptied(c, res) ==
    Result([res.S EXCEPT !.root = NULL], 0, c, NULL, FALSE, res.deleted)

pr_tree_empty(r, c, h, df) ==
    emptied(c, empty_loop(Start(r, h), df, r, <<>>))

(***************************************************************************)
(* The calls as actions: each stores what the call hands back; last is     *)
(* what the caller sees of it, with the record of its rotations.           *)
(***************************************************************************)
Report(op, res) ==
    [op |-> op, rv |-> res.rv, out |-> res.out, made |-> res.made,
     ok |-> res.S.ok, mono |-> res.S.mono, sink |-> res.S.sink,
     rots |-> res.S.rots,
     done |-> res.S.fuel > 0]

\* what the call adds to the balance of creations, removals and clears
NetChange(op, res) ==
    (IF res.made THEN 1 ELSE 0)
  - (IF op = "remove" /\ res.rv = 0 THEN 1 ELSE 0)
  - (IF op = "clear" THEN res.rv ELSE 0)

Insert(key, datum, overwrite, mem) ==
    \E res \in {pr_tree_insert(root, count, nodes, del_func, key, datum,
                               overwrite, mem)} :
        /\ root' = res.S.root
        /\ nodes' = res.S.nodes
        /\ count' = res.count
        /\ deleted' = res.deleted
        /\ last' = Report("insert", res)
        /\ net' = net + NetChange("insert", res)
        /\ visited' = <<>>
        /\ UNCHANGED <<del_func, itor>>

Probe(key, slot, mem) ==
    \E res \in {pr_tree_probe(root, count, nodes, key, slot, mem)} :
        /\ root' = res.S.root
        /\ nodes' = res.S.nodes
        /\ count' = res.count
        /\ deleted' = res.deleted
        /\ last' = Report("probe", res)
        /\ net' = net + NetChange("probe", res)
        /\ visited' = <<>>
        /\ UNCHANGED <<del_func, itor>>

Remove(key) ==
    \E res \in {pr_tree_remove(root, count, nodes, del_func, key)} :
        /\ root' = res.S.root
        /\ nodes' = res.S.nodes
        /\ count' = res.count
        /\ deleted' = res.deleted
        /\ last' = Report("remove", res)
        /\ net' = net + NetChange("remove", res)
        /\ visited' = <<>>
        /\ UNCHANGED <<del_func, itor>>

Clear ==
    \E res \in {pr_tree_empty(root, count, nodes, del_func)} :
        /\ root' = res.S.root
        /\ nodes' = res.S.nodes
        /\ count' = res.count
        /\ deleted' = res.deleted
        /\ last' = Report("clear", res)
        /\ net' = net + NetChange("clear", res)
        /\ visited' = <<>>
        /\ UNCHANGED <<del_func, itor>>

\* pr_tree_search as a call: the tree is left alone
Search(key) ==
    /\ last' = Report("search",
                      Result(Idle(root, nodes), count, 0,
                             pr_tree_search(root, nodes, key), FALSE, <<>>))
    /\ deleted' = <<>>
    /\ visited' = <<>>
    /\ UNCHANGED <<root, count, nodes, del_func, net, itor>>

(***************************************************************************)
(* pr_tree_new, and the specifications.                                    *)
(***************************************************************************)
Init ==
    /\ root = NULL
    /\ count = 0
    /\ nodes = <<>>
    /\ del_func \in BOOLEAN
    /\ last = Report("new", Result(Start(NULL, <<>>), 0, 0, NULL, FALSE, <<>>))
    /\ deleted = <<>>
    /\ net = 0
    /\ itor = NULL
    /\ visited = <<>>

Next ==
    \/ \E o \in Ords, c \in Copies, ow \in {0, 1}, mem \in BOOLEAN :
           Insert(Key(o, c), Datum(c), ow, mem)
    \/ \E o \in Ords, c \in Copies, mem \in BOOLEAN :
           Probe(Key(o, c), Datum(c), mem)
    \/ \E o \in Ords : Remove(Key(o, 0))
    \/ \E o \in Ords : Search(Key(o, 0))
    \/ Clear

Spec == Init /\ [][Next]_vars

\* every call that changes the shape, on more keys, each key one object
NextShape ==
    \/ \E o \in ShapeOrds : Insert(Key(o, 1), Datum(1), 0, TRUE)
    \/ \E o \in ShapeOrds : Probe(Key(o, 1), Datum(1), TRUE)
    \/ \E o \in ShapeOrds : Remove(Key(o, 0))
    \/ Clear

SpecShape == Init /\ [][NextShape]_vars

\* insertions only, of more keys
NextGrow ==
    \/ \E o \in GrowOrds : Insert(Key(o, 1), Datum(1), 0, TRUE)
    \/ \E o \in GrowOrds : Probe(Key(o, 1), Datum(1), TRUE)

SpecGrow == Init /\ [][NextGrow]_vars

\* insertions only, of many keys in some orders: the keys MaxLateKey .. 1
\* are inserted in descending order, except for up to MaxLate of them that
\* the run leaves out; those are inserted (or probed) in any order once the
\* run has reached key 1
LateOrds == 1..MaxLateKey
Held == {nodes[n].key.ord : n \in DOMAIN nodes}
LeftOut(low) == {o \in low..MaxLateKey : o \notin Held}

RunInsert(o) ==
    /\ \A k \in Held : o < k
    /\ Cardinality(LeftOut(o + 1)) <= MaxLate
    /\ Insert(Key(o, 1), Datum(1), 0, TRUE)

LateInsert(o) ==
    /\ 1 \in Held /\ o \notin Held
    /\ Insert(Key(o, 1), Datum(1), 0, TRUE)

LateProbe(o) ==
    /\ 1 \in Held /\ o \notin Held
    /\ Probe(Key(o, 1), Datum(1), TRUE)

NextLate ==
    \/ \E o \in LateOrds : RunInsert(o)
    \/ \E o \in LateOrds : LateInsert(o)
    \/ \E o \in LateOrds : LateProbe(o)

SpecLate == Init /\ [][NextLate]_vars

(***************************************************************************)
(* Traversal: node_min, node_next and the loop of pr_tree_walk with a      *)
(* visitor that never stops it.                                            *)
(***************************************************************************)
RECURSIVE node_min(_, _)
node_min(h, node) ==
    IF h[node].llink # NULL THEN node_min(h, h[node].llink) ELSE node

RECURSIVE ascend_next(_, _, _)
ascend_next(h, node, temp) ==
    IF temp # NULL /\ h[temp].rlink = node
    THEN ascend_next(h, temp, h[temp].parent) ELSE temp

node_next(h, node) ==
    IF h[node].rlink # NULL THEN node_min(h, h[node].rlink)
    ELSE ascend_next(h, node, h[node].parent)

\* the nodes the for loop of pr_tree_walk visits, in order; the loop is cut
\* after fuel nodes
RECURSIVE walk_from(_, _, _)
walk_from(h, node, fuel) ==
    IF node = NULL \/ fuel = 0 THEN <<>>
    ELSE <<node>> \o walk_from(h, node_next(h, node), fuel - 1)

pr_tree_walk(r, h) ==
    IF r = NULL THEN <<>>
    ELSE walk_from(h, node_min(h, r), Cardinality(DOMAIN h) + 1)

(***************************************************************************)
(* pr_tree_walk with a visitor that may stop it.  The visitor is a         *)
(* caller's function: the one modelled returns false on the key that       *)
(* compares as stopAt and true on every other key.                         *)
(***************************************************************************)
visit(key, datum, stopAt) == key.ord # stopAt

\* (mutant of walk_loop: the node the visitor stops at is not counted)
RECURSIVE walk_loop_late_count(_, _, _, _, _, _)
walk_loop_late_count(h, node, cnt, seen, stopAt, fuel) ==
    IF node = NULL \/ fuel = 0 THEN [count |-> cnt, seen |-> seen]
    ELSE IF ~visit(h[node].key, h[node].datum, stopAt)
    THEN [count |-> cnt,
          seen |-> Append(seen, <<h[node].key, h[node].datum>>)]
    ELSE walk_loop_late_count(h, node_next(h, node), cnt + 1,
                              Append(seen, <<h[node].key, h[node].datum>>),
                              stopAt, fuel - 1)

\* the for loop of pr_tree_walk: ++count; if (!visit(...)) break;
RECURSIVE walk_loop(_, _, _, _, _, _)
walk_loop(h, node, cnt, seen, stopAt, fuel) ==
    IF node = NULL \/ fuel = 0 THEN [count |-> cnt, seen |-> seen]
    ELSE IF ~visit(h[node].key, h[node].datum, stopAt)
    THEN [count |-> cnt + 1,
          seen |-> Append(seen, <<h[node].key, h[node].datum>>)]
    ELSE walk_loop(h, node_next(h, node), cnt + 1,
                   Append(seen, <<h[node].key, h[node].datum>>),
                   stopAt, fuel - 1)

\* pr_tree_walk(tree, visit): what it returns (count) and the visitor's calls
pr_tree_walk_visit(r, h, stopAt) ==
    IF r = NULL THEN [count |-> 0, seen |-> <<>>]
    ELSE walk_loop(h, node_min(h, r), 0, <<>>, stopAt, MaxFuel)

(***************************************************************************)
(* The cursor (pr_itor): node_max, node_prev and the pr_itor_ functions,   *)
(* each as the value it leaves in itor->node.                              *)
(***************************************************************************)
RECURSIVE node_max(_, _)
node_max(h, node) ==
    IF h[node].rlink # NULL THEN node_max(h, h[node].rlink) ELSE node

RECURSIVE ascend_prev(_, _, _)
ascend_prev(h, node, temp) ==
    IF temp # NULL /\ h[temp].llink = node
    THEN ascend_prev(h, temp, h[temp].parent) ELSE temp

node_prev(h, node) ==
    IF h[node].llink # NULL THEN node_max(h, h[node].llink)
    ELSE ascend_prev(h, node, h[node].parent)

pr_itor_first(r, h) == IF r = NULL THEN NULL ELSE node_min(h, r)

pr_itor_last(r, h) == IF r = NULL THEN NULL ELSE node_max(h, r)

\* (mutant of pr_itor_next: an unbound cursor stays unbound)
pr_itor_next_stuck(r, h, it) ==
    IF it = NULL THEN NULL ELSE node_next(h, it)

pr_itor_next(r, h, it) ==
    IF it = NULL THEN pr_itor_first(r, h) ELSE node_next(h, it)

pr_itor_prev(r, h, it) ==
    IF it = NULL THEN pr_itor_last(r, h) ELSE node_prev(h, it)

\* while (count-- && itor->node) itor->node = node_next(itor->node);
RECURSIVE nextn_loop(_, _, _)
nextn_loop(h, it, cnt) ==
    IF cnt = 0 \/ it = NULL THEN it
    ELSE nextn_loop(h, node_next(h, it), cnt - 1)

RECURSIVE prevn_loop(_, _, _)
prevn_loop(h, it, cnt) ==
    IF cnt = 0 \/ it = NULL THEN it
    ELSE prevn_loop(h, node_prev(h, it), cnt - 1)

\* (mutant of pr_itor_nextn: the call of first does not use up a step)
pr_itor_nextn_free_first(r, h, it, cnt) ==
    IF cnt = 0 THEN it
    ELSE IF it = NULL
    THEN nextn_loop(h, pr_itor_first(r, h), cnt)
    ELSE nextn_loop(h, it, cnt)

pr_itor_nextn(r, h, it, cnt) ==
    IF cnt = 0 THEN it
    ELSE IF it = NULL
    THEN nextn_loop(h, pr_itor_first(r, h), cnt - 1)
    ELSE nextn_loop(h, it, cnt)

pr_itor_prevn(r, h, it, cnt) ==
    IF cnt = 0 THEN it
    ELSE IF it = NULL
    THEN prevn_loop(h, pr_itor_last(r, h), cnt - 1)
    ELSE prevn_loop(h, it, cnt)

pr_itor_key(h, it) == IF it # NULL THEN h[it].key ELSE NULL

pr_itor_data(h, it) == IF it # NULL THEN h[it].datum ELSE NULL

\* (mutant of pr_itor_set_data: the old datum is read after the store)
pr_itor_set_data_late_read(h, it, datum, has_old, old) ==
    IF it = NULL THEN [rv |-> -1, nodes |-> h, old |-> old]
    ELSE [rv |-> 0, nodes |-> [h EXCEPT ![it].datum = datum],
          old |-> IF has_old THEN datum ELSE old]

\* has_old: the caller passes a non-null old_datum; old: what *old_datum
\* holds before the call
pr_itor_set_data(h, it, datum, has_old, old) ==
    IF it = NULL THEN [rv |-> -1, nodes |-> h, old |-> old]
    ELSE [rv |-> 0, nodes |-> [h EXCEPT ![it].datum = datum],
          old |-> IF has_old THEN h[it].datum ELSE old]

(***************************************************************************)
(* The walk and the cursor's functions as actions.  A caller does not use  *)
(* a cursor whose node it has removed: the functions that read itor->node  *)
(* are called when it is null or a node of the heap (Usable); first, last  *)
(* and invalidate only write it.                                           *)
(***************************************************************************)
Usable == itor = NULL \/ itor \in DOMAIN nodes

\* what a call that leaves the tree alone reports
Told(op, rv, out) ==
    Report(op, Result(Idle(root, nodes), count, rv, out, FALSE, <<>>))

\* RETVALID(itor)
RETVALID(it) == IF it # NULL THEN 1 ELSE 0

Walk(stopAt) ==
    \E w \in {pr_tree_walk_visit(root, nodes, stopAt)} :
        /\ visited' = w.seen
        /\ last' = Told("walk", w.count, NULL)
        /\ deleted' = <<>>
        /\ UNCHANGED <<root, count, nodes, del_func, net, itor>>

\* the cursor moves to it; nothing else changes
Moved(op, it) ==
    /\ itor' = it
    /\ last' = Told(op, RETVALID(it), NULL)
    /\ deleted' = <<>>
    /\ visited' = <<>>
    /\ UNCHANGED <<root, count, nodes, del_func, net>>

\* pr_itor_new; mem: whether MALLOC succeeds (if not, the caller is left
\* with the cursor it had)
ItorNew(mem) ==
    /\ itor' = IF mem THEN pr_itor_first(root, nodes) ELSE itor
    /\ last' = Told("itor_new", IF mem THEN 1 ELSE 0, NULL)
    /\ deleted' = <<>>
    /\ visited' = <<>>
    /\ UNCHANGED <<root, count, nodes, del_func, net>>

ItorFirst == Moved("itor_first", pr_itor_first(root, nodes))

ItorLast == Moved("itor_last", pr_itor_last(root, nodes))

ItorInvalidate ==
    /\ itor' = NULL
    /\ last' = Told("itor_invalidate", 0, NULL)
    /\ deleted' = <<>>
    /\ visited' = <<>>
    /\ UNCHANGED <<root, count, nodes, del_func, net>>

ItorNext == Usable /\ Moved("itor_next", pr_itor_next(root, nodes, itor))

ItorPrev == Usable /\ Moved("itor_prev", pr_itor_prev(root, nodes, itor))

ItorNextn(cnt) ==
    Usable /\ Moved("itor_nextn", pr_itor_nextn(root, nodes, itor, cnt))

ItorPrevn(cnt) ==
    Usable /\ Moved("itor_prevn", pr_itor_prevn(root, nodes, itor, cnt))

ItorKey ==
    /\ Usable
    /\ last' = Told("itor_key", 0, pr_itor_key(nodes, itor))
    /\ deleted' = <<>>
    /\ visited' = <<>>
    /\ UNCHANGED <<root, count, nodes, del_func, net, itor>>

ItorData ==
    /\ Usable
    /\ last' = Told("itor_data", 0, pr_itor_data(nodes, itor))
    /\ deleted' = <<>>
    /\ visited' = <<>>
    /\ UNCHANGED <<root, count, nodes, del_func, net, itor>>

ItorSetData(datum, has_old) ==
    /\ Usable
    /\ \E res \in {pr_itor_set_data(nodes, itor, datum, has_old, NULL)} :
           /\ nodes' = res.nodes
           /\ last' = Report("itor_set_data",
                             Result(Idle(root, res.nodes), count, res.rv,
                                    res.old, FALSE, <<>>))
    /\ deleted' = <<>>
    /\ visited' = <<>>
    /\ UNCHANGED <<root, count, del_func, net, itor>>

\* the tree with a cursor stepping on it and walks over it
IterOrds == 1..MaxIterKey
Steps == 0..(MaxIterKey + 1)

NextIter ==
    \/ \E o \in IterOrds : Insert(Key(o, 1), Datum(1), 0, TRUE)
    \/ \E o \in IterOrds : Remove(Key(o, 0))
    \/ \E o \in IterOrds \cup {0} : Walk(o)
    \/ \E mem \in BOOLEAN : ItorNew(mem)
    \/ ItorFirst
    \/ ItorLast
    \/ ItorInvalidate
    \/ ItorNext
    \/ ItorPrev
    \/ \E c \in Steps : ItorNextn(c)
    \/ \E c \in Steps : ItorPrevn(c)

SpecIter == Init /\ [][NextIter]_vars

\* the tree with a cursor that reads and replaces the data
NextEdit ==
    \/ \E o \in Ords : Insert(Key(o, 1), Datum(1), 0, TRUE)
    \/ \E o \in Ords : Remove(Key(o, 0))
    \/ ItorFirst
    \/ ItorNext
    \/ ItorInvalidate
    \/ ItorKey
    \/ ItorData
    \/ \E c \in Copies, has_old \in BOOLEAN : ItorSetData(Datum(c), has_old)

SpecEdit == Init /\ [][NextEdit]_vars

(***************************************************************************)
(* The shape of the tree as the child links give it.  The descent is cut   *)
(* at depth d, so that it ends on any heap.                                *)
(***************************************************************************)
\* the nodes below and including n, left to right, as the child links reach
\* them (a node reached twice is listed twice)
RECURSIVE InOrder(_, _, _)
InOrder(h, n, d) ==
    IF n = NULL \/ d = 0 THEN <<>>
    ELSE InOrder(h, h[n].llink, d - 1) \o <<n>> \o InOrder(h, h[n].rlink, d - 1)

Range(q) == {q[i] : i \in 1..Len(q)}
Depth(h) == Cardinality(DOMAIN h) + 1
TreeSeq == InOrder(nodes, root, Depth(nodes))
TreeNodes == Range(TreeSeq)
Under(n) == Range(InOrder(nodes, n, Depth(nodes)))
W(n) == WEIGHT(nodes, n)
Left(n) == IF n = NULL THEN NULL ELSE nodes[n].llink
Right(n) == IF n = NULL THEN NULL ELSE nodes[n].rlink

\* the last call returned, and no assertion failed in it
Returned == last.done /\ last.ok

(***************************************************************************)
(* C1: after any sequence of insert, probe, remove and clear from an empty *)
(* tree, every node n of the tree has weight(n) = W(n.left) + W(n.right),  *)
(* an absent child counting 1; so every leaf has weight 2.                 *)
(***************************************************************************)
C1_WeightInvariant ==
    Returned =>
        \A n \in TreeNodes :
            /\ nodes[n].weight = W(nodes[n].llink) + W(nodes[n].rlink)
            /\ (nodes[n].llink = NULL /\ nodes[n].rlink = NULL
                    => nodes[n].weight = 2)

\* a removal that rotated has left a tree with inner nodes
C1_Witness ==
    /\ last.op = "remove" /\ last.rv = 0 /\ last.rots > 0
    /\ \E n \in TreeNodes : nodes[n].weight >= 4

(***************************************************************************)
(* C2: after any sequence of insert, remove and clear, every node n with   *)
(* wl = W(n.left), wr = W(n.right) has: wr > wl => W(n.right.right) <= wl  *)
(* and W(n.right.left) <= wl; wl > wr => W(n.left.left) <= wr and          *)
(* W(n.left.right) <= wr.                                                  *)
(***************************************************************************)
Balanced(n) ==
    LET wl == W(Left(n))
        wr == W(Right(n))
    IN /\ wr > wl => W(Right(Right(n))) <= wl /\ W(Left(Right(n))) <= wl
       /\ wl > wr => W(Left(Left(n))) <= wr /\ W(Right(Left(n))) <= wr

C2_BalanceInvariant == Returned => \A n \in TreeNodes : Balanced(n)

(***************************************************************************)
(* C3: after any sequence of insert, probe, remove and clear the tree is a *)
(* binary search tree without duplicate keys: every key in n's left        *)
(* subtree < n.key < every key in n's right subtree, and the in-order walk *)
(* visits every node, keys strictly ascending.                             *)
(***************************************************************************)
Ascending(q) ==
    \A i \in 1..(Len(q) - 1) : key_cmp(nodes[q[i]].key, nodes[q[i + 1]].key) < 0

C3_Ordering ==
    Returned =>
        /\ \A n \in TreeNodes :
              /\ \A m \in Under(nodes[n].llink) :
                     key_cmp(nodes[m].key, nodes[n].key) < 0
              /\ \A m \in Under(nodes[n].rlink) :
                     key_cmp(nodes[n].key, nodes[m].key) < 0
        /\ pr_tree_walk(root, nodes) = TreeSeq
        /\ Ascending(pr_tree_walk(root, nodes))

\* a tree of at least three nodes that the last call rotated
C3_Witness ==
    /\ last.rots > 0 /\ Len(TreeSeq) >= 3
    /\ last.op \in {"insert", "probe", "remove"}

(***************************************************************************)
(* C4: in any reachable tree, for a key k not present, a successful        *)
(* insert(k, v) followed by search(k) returns v; after a successful        *)
(* remove(k), search(k) returns NULL; whatever rotations were performed.   *)
(***************************************************************************)
C4_RoundTrip ==
    [][/\ \A o \in Ords, c \in Copies, ow \in {0, 1}, mem \in BOOLEAN :
             (/\ last'.op = "insert" /\ last'.rv = 0
              /\ pr_tree_search(root, nodes, Key(o, 0)) = NULL
              /\ Insert(Key(o, c), Datum(c), ow, mem))
                 => pr_tree_search(root', nodes', Key(o, 0)) = Datum(c)
       /\ \A o \in Ords :
             (last'.op = "remove" /\ last'.rv = 0 /\ Remove(Key(o, 0)))
                 => pr_tree_search(root', nodes', Key(o, 0)) = NULL]_vars

\* a removal that rotated, of a key that is gone, from a tree that keeps
\* a smaller and a larger key
C4_Witness ==
    /\ last.op = "remove" /\ last.rv = 0 /\ last.rots > 0
    /\ deleted # <<>>
    /\ pr_tree_search(root, nodes, Key(deleted[1][1].ord, 0)) = NULL
    /\ \E n, m \in TreeNodes : /\ nodes[n].key.ord < deleted[1][1].ord
                               /\ nodes[m].key.ord > deleted[1][1].ord

(***************************************************************************)
(* C5: count is the number of nodes reachable from root, and is the number *)
(* of insert/probe calls that created a node minus the removes that        *)
(* returned 0 minus the counts clear returned.                             *)
(***************************************************************************)
C5_CountConsistency ==
    Returned => count = Cardinality(TreeNodes) /\ count = net

C5_Witness ==
    /\ last.op = "remove" /\ last.rv = 0 /\ count >= 2 /\ net = count

(***************************************************************************)
(* C6: between calls every non-null child c of a node n has c.parent = n,  *)
(* root.parent is null, every node is reachable from root through child    *)
(* links exactly once, and root is null exactly when count is 0.           *)
(***************************************************************************)
C6_Linkage ==
    Returned =>
        /\ \A n \in TreeNodes :
              /\ nodes[n].llink # NULL => nodes[nodes[n].llink].parent = n
              /\ nodes[n].rlink # NULL => nodes[nodes[n].rlink].parent = n
        /\ root # NULL => nodes[root].parent = NULL
        /\ TreeNodes = DOMAIN nodes
        /\ Len(TreeSeq) = Cardinality(TreeNodes)
        /\ (root = NULL) <=> (count = 0)

C6_Witness ==
    /\ last.op = "remove" /\ last.rv = 0 /\ last.rots > 0 /\ root # NULL
    /\ \E n \in TreeNodes : nodes[n].llink # NULL /\ nodes[n].rlink # NULL

(***************************************************************************)
(* C7: every rebalancing step fixup performs during insert or probe (one   *)
(* single rotation, or one double rotation as a unit) strictly decreases   *)
(* the tree's internal path length.                                        *)
(***************************************************************************)
C7_RotationsReducePathLength ==
    (last.op \in {"insert", "probe"} /\ Returned) => last.mono

\* an insertion that needed more than a double rotation
C7_Witness ==
    /\ last.op \in {"insert", "probe"} /\ last.rots >= 3 /\ last.mono

(***************************************************************************)
(* C8: insert returns 0, 1 or -1; 1 only when the key is present and       *)
(* overwrite is off, -1 only when the allocation fails; when it returns 1  *)
(* or -1 the tree (structure, keys, values, weights, count) is as before   *)
(* the call and the deleter is not invoked.                                *)
(***************************************************************************)
C8_FailedInsertKeepsTree ==
    [][/\ last'.op = "insert" => last'.rv \in {0, 1, -1}
       /\ \A o \in Ords, c \in Copies, ow \in {0, 1}, mem \in BOOLEAN :
             (/\ last'.op = "insert" /\ last'.rv \in {1, -1}
              /\ Insert(Key(o, c), Datum(c), ow, mem)) =>
                /\ last'.rv = 1 =>
                      /\ pr_tree_search(root, nodes, Key(o, 0)) # NULL
                      /\ ow = 0
                /\ last'.rv = -1 => ~mem
                /\ <<root', count', nodes'>> = <<root, count, nodes>>
                /\ deleted' = <<>>]_vars

\* a rejected duplicate on a tree of several nodes
C8_Witness ==
    /\ last.op = "insert" /\ last.rv = 1 /\ count >= 3 /\ del_func

(***************************************************************************)
(* C9: insert(k, v, overwrite on) on a tree that holds k returns 0, hands  *)
(* the stored pair to the deleter exactly once (if one is set), stores the *)
(* new key and value in the same node, and leaves count, shape, weights    *)
(* and every other pair as they were.                                      *)
(***************************************************************************)
C9_OverwritingInsert ==
    [][\A o \in Ords, c \in Copies, mem \in BOOLEAN :
          LET n == search_from(nodes, root, Key(o, 0))
          IN (/\ last'.op = "insert" /\ n # NULL
              /\ Insert(Key(o, c), Datum(c), 1, mem)) =>
                /\ last'.rv = 0
                /\ deleted' = IF del_func
                              THEN <<<<nodes[n].key, nodes[n].datum>>>>
                              ELSE <<>>
                /\ nodes' = [nodes EXCEPT ![n].key = Key(o, c),
                                          ![n].datum = Datum(c)]
                /\ root' = root
                /\ count' = count]_vars

\* an overwrite that replaced a pair by another one, the old one deleted
C9_Witness ==
    /\ last.op = "insert" /\ last.rv = 0 /\ ~last.made
    /\ deleted # <<>>
    /\ \E n \in TreeNodes : /\ nodes[n].key.ord = deleted[1][1].ord
                            /\ nodes[n].key # deleted[1][1]
                            /\ nodes[n].datum # deleted[1][2]

(***************************************************************************)
(* C10: probe(k, slot) on a tree holding k returns 0, writes k's stored    *)
(* value into the slot and leaves the tree unchanged; on a tree not        *)
(* holding k (the allocation succeeding) it returns 1, adds k with the     *)
(* slot's value, and the tree is the one insert(k, value) would have made. *)
(***************************************************************************)
C10_ProbeIsGetOrInsert ==
    [][\A o \in Ords, c \in Copies :
          LET n == search_from(nodes, root, Key(o, 0))
              ins == pr_tree_insert(root, count, nodes, del_func, Key(o, c),
                                    Datum(c), 0, TRUE)
          IN (last'.op = "probe" /\ Probe(Key(o, c), Datum(c), TRUE)) =>
                IF n # NULL
                THEN /\ last'.rv = 0
                     /\ last'.out = nodes[n].datum
                     /\ <<root', count', nodes'>> = <<root, count, nodes>>
                     /\ deleted' = <<>>
                ELSE /\ last'.rv = 1
                     /\ pr_tree_search(root', nodes', Key(o, 0)) = Datum(c)
                     /\ last'.out = Datum(c)
                     /\ ins.rv = 0
                     /\ <<root', count', nodes'>>
                           = <<ins.S.root, ins.count, ins.S.nodes>>]_vars

\* a probe that created a node and rotated
C10_Witness ==
    /\ last.op = "probe" /\ last.rv = 1 /\ last.rots > 0 /\ count >= 3

(***************************************************************************)
(* C11: remove(k) returns 0 exactly when k was present and -1 exactly when *)
(* it was absent.  When it returns 0 the keys left are the previous keys   *)
(* minus k, every other key keeps its value, count is one less and the     *)
(* deleter (if set) is called exactly once, on k's pair.  When it returns  *)
(* -1 the tree (structure, weights, count) is as before and no rotation    *)
(* was performed.                                                          *)
(***************************************************************************)
\* the pairs stored in the tree of root r on heap h
PairsOf(r, h) ==
    {<<h[m].key, h[m].datum>> : m \in Range(InOrder(h, r, Depth(h)))}

C11_RemoveResultAndFrame ==
    [][\A o \in Ords :
          LET n == search_from(nodes, root, Key(o, 0))
          IN (last'.op = "remove" /\ Remove(Key(o, 0))) =>
                /\ last'.rv \in {0, -1}
                /\ (last'.rv = 0) <=> (n # NULL)
                /\ last'.rv = 0 =>
                      /\ PairsOf(root', nodes')
                            = PairsOf(root, nodes)
                                \ {<<nodes[n].key, nodes[n].datum>>}
                      /\ pr_tree_search(root', nodes', Key(o, 0)) = NULL
                      /\ \A o2 \in Ords \ {o} :
                             pr_tree_search(root', nodes', Key(o2, 0))
                                 = pr_tree_search(root, nodes, Key(o2, 0))
                      /\ count' = count - 1
                      /\ deleted' = IF del_func
                                    THEN <<<<nodes[n].key, nodes[n].datum>>>>
                                    ELSE <<>>
                /\ last'.rv = -1 =>
                      /\ <<root', count', nodes'>> = <<root, count, nodes>>
                      /\ last'.rots = 0
                      /\ deleted' = <<>>]_vars

\* the removal, after a rotation, of a key with two children whose pair went
\* to the deleter, the two other keys staying with different values
C11_Witness ==
    /\ last.op = "remove" /\ last.rv = 0 /\ last.rots > 0 /\ count = 2
    /\ Len(deleted) = 1
    /\ Cardinality({p[2] : p \in PairsOf(root, nodes)}) = 2

(***************************************************************************)
(* C12: on any reachable tree clear terminates, returns the count held     *)
(* before the call, calls the deleter (when set) exactly once for every    *)
(* stored pair and never on a node that still has a child, and leaves root *)
(* null and count 0; an insert that follows behaves as on a new tree.      *)
(***************************************************************************)
C12_Clear ==
    [][(last'.op = "clear" /\ Clear) =>
          /\ last'.done
          /\ last'.rv = count
          /\ root' = NULL /\ count' = 0
          /\ IF del_func
             THEN /\ Len(deleted') = Len(TreeSeq)
                  /\ Range(deleted') = PairsOf(root, nodes)
                  \* a node's pair comes after the pairs of the nodes below it
                  /\ \A i, j \in 1..Len(deleted') :
                        LET n == search_from(nodes, root, deleted'[i][1])
                            m == search_from(nodes, root, deleted'[j][1])
                        IN (m # n /\ m \in Under(n)) => j < i
             ELSE deleted' = <<>>
          /\ \A o \in ShapeOrds :
                pr_tree_insert(root', count', nodes', del_func, Key(o, 1),
                               Datum(1), 0, TRUE)
                  = pr_tree_insert(NULL, 0, <<>>, del_func, Key(o, 1),
                                   Datum(1), 0, TRUE)]_vars

\* a clear of five or more nodes, each given to the deleter
C12_Witness ==
    /\ last.op = "clear" /\ last.rv >= 5 /\ Len(deleted) = last.rv
    /\ root = NULL /\ count = 0

(***************************************************************************)
(* C13: walk calls the visitor on the (key, value) pairs in ascending key  *)
(* order; when the visitor signals stop no further pair is visited and     *)
(* walk returns the number of visitor calls made, the stopping one         *)
(* included; when it never stops walk returns count; on an empty tree walk *)
(* returns 0 and the visitor is not called.                                *)
(***************************************************************************)
\* the pairs of the tree from left to right, as the child links give them
PairSeq == [i \in 1..Len(TreeSeq) |->
               <<nodes[TreeSeq[i]].key, nodes[TreeSeq[i]].datum>>]

C13_WalkEarlyStop ==
    [][\A s \in IterOrds \cup {0} :
          (last'.op = "walk" /\ Walk(s)) =>
             /\ last'.rv = Len(visited')
             /\ Len(visited') <= Len(PairSeq)
             /\ \A i \in 1..Len(visited') : visited'[i] = PairSeq[i]
             /\ \A i \in 1..(Len(visited') - 1) :
                    key_cmp(visited'[i][1], visited'[i + 1][1]) < 0
             /\ IF \E i \in 1..Len(PairSeq) : PairSeq[i][1].ord = s
                THEN /\ visited'[Len(visited')][1].ord = s
                     /\ \A i \in 1..(Len(visited') - 1) :
                            visited'[i][1].ord # s
                ELSE last'.rv = count
             /\ root = NULL => last'.rv = 0 /\ visited' = <<>>
             /\ UNCHANGED <<root, count, nodes, itor>>]_vars

\* a walk stopped at its second or a later pair, before the last one
C13_Witness ==
    /\ last.op = "walk" /\ last.rv >= 2 /\ last.rv < count
    /\ Len(visited) = last.rv

(***************************************************************************)
(* C14: after any sequence of n insertions of distinct keys into an empty  *)
(* tree, with no removals and in any order, height (the largest number of  *)
(* edges from the root to a leaf) is at most 2*log2(n+1):                  *)
(* 2^height <= (n+1)^2.                                                    *)
(***************************************************************************)
RECURSIVE Pow2(_)
Pow2(e) == IF e = 0 THEN 1 ELSE 2 * Pow2(e - 1)

DepthOf(n) == Cardinality({m \in TreeNodes : n \in Under(m)}) - 1

Leaves == {n \in TreeNodes : nodes[n].llink = NULL /\ nodes[n].rlink = NULL}

\* the sum of DepthOf(n) + base over the first i nodes of the tree
RECURSIVE SumDepths(_, _)
SumDepths(i, base) ==
    IF i = 0 THEN 0
    ELSE DepthOf(TreeSeq[i]) + base + SumDepths(i - 1, base)

(***************************************************************************)
(* C15: for every reachable non-empty tree, min-height is the minimum,     *)
(* over the leaves (the nodes without children), of the number of edges    *)
(* from the root to the leaf; for an empty tree it is 0.                   *)
(***************************************************************************)
C15_MinHeight ==
    Returned =>
        IF root = NULL THEN pr_tree_mheight(root, nodes) = 0
        ELSE /\ \E n \in Leaves : pr_tree_mheight(root, nodes) = DepthOf(n)
             /\ \A n \in Leaves : pr_tree_mheight(root, nodes) <= DepthOf(n)

(***************************************************************************)
(* C16: for every reachable tree, path-length is the sum over all nodes of *)
(* their depth from the root, the root counted at depth 1 (a tree of one   *)
(* node has path length 1); for an empty tree it is 0.                     *)
(***************************************************************************)
C16_PathLengthRootAtOne ==
    Returned => pr_tree_pathlen(root, nodes) = SumDepths(Len(TreeSeq), 1)

(***************************************************************************)
(* C16 as amended: for every reachable tree, path-length is the sum over   *)
(* all nodes of their depth from the root, the root counted at depth 0 (a  *)
(* tree of one node has path length 0); for an empty tree it is 0.         *)
(***************************************************************************)
C16_PathLengthRootAtZero ==
    Returned => pr_tree_pathlen(root, nodes) = SumDepths(Len(TreeSeq), 0)

\* a tree of five or more nodes, left by a call that rotated
C16_Witness ==
    /\ last.rots > 0 /\ count >= 5
    /\ \E n \in TreeNodes : DepthOf(n) >= 2
    /\ pr_tree_pathlen(root, nodes) >= 6

(***************************************************************************)
(* The order of the nodes by their keys.                                   *)
(***************************************************************************)
\* the node of the set S with the lowest (highest) key, NULL when S is empty
Lowest(S) ==
    IF S = {} THEN NULL
    ELSE CHOOSE n \in S : \A m \in S : key_cmp(nodes[n].key, nodes[m].key) <= 0

Highest(S) ==
    IF S = {} THEN NULL
    ELSE CHOOSE n \in S : \A m \in S : key_cmp(nodes[n].key, nodes[m].key) >= 0

\* the nodes of the tree whose key is greater (smaller) than node n's
After(n) == {m \in TreeNodes : key_cmp(nodes[n].key, nodes[m].key) < 0}
Before(n) == {m \in TreeNodes : key_cmp(nodes[m].key, nodes[n].key) < 0}

\* the nodes a caller sees that calls first and then next until the cursor
\* is unbound (at most fuel calls)
RECURSIVE NextRun(_, _)
NextRun(it, fuel) ==
    IF it = NULL \/ fuel = 0 THEN <<>>
    ELSE <<it>> \o NextRun(pr_itor_next(root, nodes, it), fuel - 1)

(***************************************************************************)
(* C17: a cursor is created at the minimum key, or unbound on an empty     *)
(* tree; next from unbound behaves as first and prev from unbound as last; *)
(* next from a cursor at key k moves to the smallest key greater than k,   *)
(* or unbinds the cursor when k is the maximum (prev is the mirror image); *)
(* so stepping with next from first until unbound visits exactly the       *)
(* sequence walk visits, and on an empty tree next leaves the cursor       *)
(* unbound.                                                                *)
(***************************************************************************)
C17_CursorStepping ==
    [][/\ (last'.op = "itor_new" /\ ItorNew(TRUE)) =>
              itor' = Lowest(TreeNodes)
       /\ (last'.op = "itor_next" /\ ItorNext) =>
              /\ itor' = IF itor = NULL THEN Lowest(TreeNodes)
                         ELSE Lowest(After(itor))
              /\ itor = NULL => itor' = pr_itor_first(root, nodes)
              /\ root = NULL => itor' = NULL
              /\ last'.rv = IF itor' # NULL THEN 1 ELSE 0
              /\ UNCHANGED <<root, count, nodes>>
       /\ (last'.op = "itor_prev" /\ ItorPrev) =>
              /\ itor' = IF itor = NULL THEN Highest(TreeNodes)
                         ELSE Highest(Before(itor))
              /\ itor = NULL => itor' = pr_itor_last(root, nodes)
              /\ last'.rv = IF itor' # NULL THEN 1 ELSE 0
              /\ UNCHANGED <<root, count, nodes>>
       /\ NextRun(pr_itor_first(root, nodes), MaxFuel)
              = pr_tree_walk(root, nodes)
       /\ NextRun(pr_itor_first(root, nodes), MaxFuel) = TreeSeq]_vars

\* next has moved the cursor up to the root, from the bottom of a left
\* subtree of two levels
C17_Witness ==
    /\ last.op = "itor_next" /\ itor # NULL /\ itor = root
    /\ Left(root) # NULL /\ Right(Left(root)) # NULL /\ Right(root) # NULL

(***************************************************************************)
(* C18: on a tree with keys k1 < ... < kn, next-n(c) with c = 0 leaves the *)
(* cursor as it is; from a cursor at ki with c > 0 it ends at k(i+c) if    *)
(* i+c <= n and unbound otherwise; from an unbound cursor with c > 0 it    *)
(* ends at kc if c <= n and unbound otherwise (the first step is used up   *)
(* by first); it never wraps around to the first key.  prev-n is the       *)
(* mirror image from the maximum.                                          *)
(***************************************************************************)
\* the position of node n among the keys, from 1
Rank(n) == Cardinality(Before(n)) + 1

\* the node at position i, NULL when there is none
NodeAt(i) ==
    IF \E n \in TreeNodes : Rank(n) = i
    THEN CHOOSE n \in TreeNodes : Rank(n) = i
    ELSE NULL

C18_BulkStepping ==
    [][\A c \in Steps :
          /\ (last'.op = "itor_nextn" /\ ItorNextn(c)) =>
                /\ itor' = IF c = 0 THEN itor
                           ELSE IF itor = NULL THEN NodeAt(c)
                           ELSE NodeAt(Rank(itor) + c)
                /\ last'.rv = IF itor' # NULL THEN 1 ELSE 0
                /\ UNCHANGED <<root, count, nodes>>
          /\ (last'.op = "itor_prevn" /\ ItorPrevn(c)) =>
                /\ itor' = IF c = 0 THEN itor
                           ELSE IF itor = NULL THEN NodeAt(count + 1 - c)
                           ELSE NodeAt(Rank(itor) - c)
                /\ last'.rv = IF itor' # NULL THEN 1 ELSE 0
                /\ UNCHANGED <<root, count, nodes>>]_vars

\* next-n has left the cursor at the greatest of four keys
C18_Witness ==
    /\ last.op = "itor_nextn" /\ count >= 4 /\ itor \in TreeNodes
    /\ Rank(itor) = count

(***************************************************************************)
(* C19: reading the key or the value of an unbound cursor returns the      *)
(* absent marker (NULL); set-value on an unbound cursor returns -1 and     *)
(* changes neither the tree nor the cursor; set-value on a positioned      *)
(* cursor returns 0, reports the previous value, and changes only the      *)
(* value of the current node (key, shape, weights, count and the cursor's  *)
(* position stay).                                                         *)
(***************************************************************************)
C19_UnboundCursorAndSetValue ==
    [][/\ (last'.op = "itor_key" /\ ItorKey) =>
              /\ itor = NULL => last'.out = NULL
              /\ UNCHANGED <<root, count, nodes, itor>>
       /\ (last'.op = "itor_data" /\ ItorData) =>
              /\ itor = NULL => last'.out = NULL
              /\ UNCHANGED <<root, count, nodes, itor>>
       /\ \A c \in Copies, has_old \in BOOLEAN :
             (last'.op = "itor_set_data" /\ ItorSetData(Datum(c), has_old)) =>
                IF itor = NULL
                THEN /\ last'.rv = -1
                     /\ UNCHANGED <<root, count, nodes, itor>>
                ELSE /\ last'.rv = 0
                     /\ has_old => last'.out = nodes[itor].datum
                     /\ nodes' = [nodes EXCEPT ![itor].datum = Datum(c)]
                     /\ UNCHANGED <<root, count, itor>>]_vars

\* set-value has replaced the value of one of three nodes, not the root, and
\* reported the value it had
C19_Witness ==
    /\ last.op = "itor_set_data" /\ last.rv = 0 /\ count = 3
    /\ itor \in TreeNodes /\ itor # root
    /\ last.out = Datum(1) /\ nodes[itor].datum = Datum(2)

(***************************************************************************)
(* C20: starting from an empty tree, after every insert or probe of a      *)
(* sequence of insertions only, the path-reduction balance condition holds *)
(* at every node of the tree, also at the node a rotation of fixup moved   *)
(* up and at the nodes inside the subtrees a double rotation rearranged.   *)
(***************************************************************************)
C20_InsertOnlyBalance ==
    (last.op \in {"new", "insert", "probe"} /\ Returned) =>
        \A n \in TreeNodes : Balanced(n)

(***************************************************************************)
(* C21: every insert, probe and remove call on a reachable tree comes to   *)
(* an end: the loops of fixup and of remove finish within their allowance  *)
(* of passes, no rotation is applied to a node whose required child is     *)
(* missing (no ASSERT of rot_left or rot_right fails), and every pass of   *)
(* remove's loop over a node with two children takes that node exactly one *)
(* level down and makes its weight strictly smaller.                       *)
(***************************************************************************)
C21_Termination ==
    last.op \in {"insert", "probe", "remove"} =>
        /\ last.done
        /\ last.ok
        /\ last.sink

\* a removal of a node with two children that took a double rotation, or
\* more than one pass, to bring the node down to where it could be unlinked
C21_Witness ==
    /\ last.op = "remove" /\ last.rv = 0 /\ last.rots >= 2
    /\ last.done /\ last.ok /\ last.sink

====
